---- MODULE Spec2Model ----
(***************************************************************************)
(* The conversation / streaming state machine of the chat client.          *)
(*                                                                         *)
(* `chat` is the Redux slice state (state.chat of chatSlice.ts) restricted  *)
(* to the fields the conversation, streaming and version reducers read or   *)
(* write.  `thunks` holds one record per async operation (createAsyncThunk  *)
(* instance or tool handler) with its position and its local variables.     *)
(* Every reducer is an operator from slice state to slice state; every      *)
(* action of Next is one event-loop task: a view handler, or the            *)
(* continuation of a thunk after one await.                                 *)
(*                                                                         *)
(* Texts are sequences of characters, so that `+=` is \o.  Array indices    *)
(* kept in the state (streamingMessageIndex, currentEditIndex, ...) are     *)
(* 0-based as in the source; a[i] is written At(a, i).                      *)
(***************************************************************************)
EXTENDS Integers, Sequences, FiniteSets, TLC

\* ---------------------------------------------------------------- bounds
MaxConvs  == 2   \* conversations created over a run
MaxThunks == 2   \* async operations started over a run
MaxDeep   == 3   \* the same, in the runs of one conversation without tools
MaxLong   == 4   \* the same, in the runs whose responses carry no chunk
MaxMany   == 3   \* conversations created over a run with the model selector
MaxMsgs   == 3   \* live messages of a conversation when a send or tool call starts
MaxChunks == 2   \* chunk frames one response stream delivers
MaxTitled == 3   \* operations of the runs whose messages have long texts
MaxFetches == 2  \* GET /models requests of the runs with the model selector
MaxFrames == 3   \* frames of a response body in the runs that read it by bytes

\* null of streamingMessageIndex / activeConversationId, undefined of an index field
Null == -1

UserTexts == { <<"A">> }
Repeat(c, n) == [ i \in 1..n |-> c ]
\* texts typed in the runs that look at titles: one character, the words
\* New Chat, and 30, 31 and 45 characters
TitledTexts ==
  { <<"A">>, <<"N", "e", "w", " ", "C", "h", "a", "t">>,
    Repeat("a", 30), Repeat("a", 31), Repeat("a", 45) }
EditTexts == { <<"A">>, <<"B">> }
\* the text of the k-th chunk frame of a response stream
ChunkText(k) == IF k % 2 = 1 THEN <<"x">> ELSE <<"y">>

SearchText == <<"S">>       \* `**Search Results**...`
LoadingText == <<"G">>      \* the image placeholder text
ImageText == <<"I">>        \* the image markdown
ImageFailText == <<"F">>    \* `Image generation failed: ...`

VARIABLES chat, thunks, nextId, nextConvId, budget, modelThunks

vars == <<chat, thunks, nextId, nextConvId, budget, modelThunks>>

\* ------------------------------------------------------------ data model
NewMessage(id, sender, text, streaming) ==
  [ id |-> id, sender |-> sender, text |-> text,
    isStreaming |-> streaming, isEditing |-> FALSE,
    responses |-> <<>>, currentResponseIndex |-> Null,
    edits |-> <<>>, currentEditIndex |-> Null,
    branches |-> <<>>, currentBranchIndex |-> Null ]

\* the title of a conversation that has no user message yet
NewChatTitle == <<"N", "e", "w", " ", "C", "h", "a", "t">>

\* text.slice(0, 30) + (text.length > 30 ? '...' : '')
TitleLength == 30

TitleOf(text) ==
  IF Len(text) > TitleLength
    THEN SubSeq(text, 1, TitleLength) \o <<".", ".", ".">>
    ELSE text

\* the model selected at start, and the fallback of the model list
DefaultModel == "mistral-large"

\* the lists GET /models answers with (the names of the ModelInfo records)
ModelLists == { <<>>, <<"other-model">>, <<DefaultModel, "other-model">> }

\* json.results of a search and the url of a generated image
SearchPayload == <<"u">>
ImageUrl == "data:image"

NewConversationRec(id, model) ==
  [ id |-> id, title |-> NewChatTitle, messages |-> <<>>, model |-> model ]

initialState ==
  [ conversations |-> <<>>,
    activeConversationId |-> Null,
    isLoading |-> FALSE,
    error |-> "null",
    streamingMessageIndex |-> Null,
    searchLoading |-> FALSE,
    imageLoading |-> FALSE,
    selectedModel |-> DefaultModel,
    availableModels |-> <<>>,
    modelsLoading |-> FALSE,
    modelsError |-> "null",
    searchResults |-> <<>>,
    generatedImageUrl |-> "null",
    imageHistory |-> <<>> ]

\* ---------------------------------------------------------- array helpers
At(a, i) == a[i + 1]

Slice(a, from, to) == SubSeq(a, from + 1, to)      \* a.slice(from, to)

Max2(a, b) == IF a >= b THEN a ELSE b
Min2(a, b) == IF a <= b THEN a ELSE b

\* conversations.find(c => c.id === id): its 1-based position, 0 when absent
FindConv(s, id) ==
  LET hits == { i \in 1..Len(s.conversations) : s.conversations[i].id = id }
  IN IF hits = {} THEN 0 ELSE CHOOSE i \in hits : \A j \in hits : i <= j

\* messages.findIndex(m => m.id === id), -1 when absent
FindIndex(ms, id) ==
  LET hits == { i \in 1..Len(ms) : ms[i].id = id }
  IN IF hits = {} THEN -1 ELSE (CHOOSE i \in hits : \A j \in hits : i <= j) - 1

ActiveConv(s) == FindConv(s, s.activeConversationId)

WithMessages(s, c, ms) ==
  [s EXCEPT !.conversations[c].messages = ms]

WithMessage(s, c, i, m) ==
  [s EXCEPT !.conversations[c].messages[i + 1] = m]

\* ------------------------------------------------ reducers (chatSlice.reducers)
\* variant: the conversation is put at the end of the collection
createNewConversation_appends(s, id) ==
  [s EXCEPT !.conversations = @ \o <<NewConversationRec(id, s.selectedModel)>>,
            !.activeConversationId = id,
            !.generatedImageUrl = "null",
            !.searchResults = <<>>]

createNewConversation(s, id) ==
  [s EXCEPT !.conversations = <<NewConversationRec(id, s.selectedModel)>> \o @,
            !.activeConversationId = id,
            !.generatedImageUrl = "null",
            !.searchResults = <<>>]

switchConversation(s, id) ==
  [s EXCEPT !.activeConversationId = id,
            !.streamingMessageIndex = Null,
            !.selectedModel = IF FindConv(s, id) # 0
                                THEN s.conversations[FindConv(s, id)].model
                                ELSE @,
            !.generatedImageUrl = "null",
            !.searchResults = <<>>]

setSelectedModel(s, model) ==
  LET s1 == [s EXCEPT !.selectedModel = model]
      c == ActiveConv(s)
  IN IF c = 0 THEN s1
     ELSE [s1 EXCEPT !.conversations[c].model = model]

\* variant: the active pointer is left as it is
deleteConversation_keepsActive(s, id) ==
  [s EXCEPT !.conversations = SelectSeq(s.conversations, LAMBDA c : c.id # id)]

deleteConversation(s, id) ==
  LET rest == SelectSeq(s.conversations, LAMBDA c : c.id # id)
  IN [s EXCEPT !.conversations = rest,
               !.activeConversationId =
                 IF @ = id
                   THEN (IF Len(rest) > 0 THEN rest[1].id ELSE Null)
                   ELSE @]

addMessage(s, conversationId, message) ==
  LET c == FindConv(s, conversationId)
  IN IF c = 0 THEN s
     ELSE LET s1 == WithMessages(s, c, Append(s.conversations[c].messages, message))
          IN IF s.conversations[c].title = NewChatTitle /\ message.sender = "User"
               THEN [s1 EXCEPT !.conversations[c].title = TitleOf(message.text)]
               ELSE s1

updateMessageText(s, conversationId, messageId, newText) ==
  LET c == FindConv(s, conversationId)
  IN IF c = 0 THEN s
     ELSE LET ms == s.conversations[c].messages
              i == FindIndex(ms, messageId)
          IN IF i = -1 THEN s
             ELSE WithMessage(s, c, i,
                    [At(ms, i) EXCEPT !.text = newText, !.isStreaming = FALSE])

addBotMessage(s, id, text) ==
  LET c == ActiveConv(s)
  IN IF c = 0 THEN s
     ELSE LET ms == Append(s.conversations[c].messages,
                           NewMessage(id, "Bot", text, TRUE))
          IN [WithMessages(s, c, ms) EXCEPT !.streamingMessageIndex = Len(ms) - 1]

\* conversation.messages[streamingMessageIndex] is undefined: the reducer throws
\* a TypeError before it has changed anything
StreamTargetMissing(s) ==
  LET c == ActiveConv(s)
  IN /\ c # 0
     /\ s.streamingMessageIndex # Null
     /\ s.streamingMessageIndex >= Len(s.conversations[c].messages)

\* variant: the chunk is put in front of the text
appendToLastBotMessage_prepends(s, chunk) ==
  LET c == ActiveConv(s)
      p == s.streamingMessageIndex
  IN IF c # 0 /\ p # Null /\ ~StreamTargetMissing(s)
       THEN WithMessage(s, c, p,
              [At(s.conversations[c].messages, p) EXCEPT !.text = chunk \o @])
       ELSE s

\* variant: without a pointer the chunk goes to the last message
appendToLastBotMessage_fallsBack(s, chunk) ==
  LET c == ActiveConv(s)
      p == IF s.streamingMessageIndex = Null /\ c # 0
             THEN Len(s.conversations[c].messages) - 1
             ELSE s.streamingMessageIndex
  IN IF c # 0 /\ p >= 0 /\ p < Len(s.conversations[c].messages)
       THEN WithMessage(s, c, p,
              [At(s.conversations[c].messages, p) EXCEPT !.text = @ \o chunk])
       ELSE s

appendToLastBotMessage(s, chunk) ==
  LET c == ActiveConv(s)
      p == s.streamingMessageIndex
  IN IF c # 0 /\ p # Null /\ ~StreamTargetMissing(s)
       THEN WithMessage(s, c, p,
              [At(s.conversations[c].messages, p) EXCEPT !.text = @ \o chunk])
       ELSE s

\* variant: the pointer is not cleared
finishStreaming_keepsPointer(s) ==
  LET c == ActiveConv(s)
      p == s.streamingMessageIndex
  IN IF c # 0 /\ p # Null /\ ~StreamTargetMissing(s)
       THEN WithMessage(s, c, p,
              [At(s.conversations[c].messages, p) EXCEPT !.isStreaming = FALSE])
       ELSE s

finishStreaming(s) ==
  LET c == ActiveConv(s)
      p == s.streamingMessageIndex
  IN IF c # 0 /\ p # Null /\ ~StreamTargetMissing(s)
       THEN [WithMessage(s, c, p,
               [At(s.conversations[c].messages, p) EXCEPT !.isStreaming = FALSE])
             EXCEPT !.streamingMessageIndex = Null]
       ELSE s

toggleMessageEdit(s, messageId) ==
  LET c == ActiveConv(s)
  IN IF c = 0 THEN s
     ELSE LET ms == s.conversations[c].messages
              i == FindIndex(ms, messageId)
          IN IF i # -1 /\ At(ms, i).sender = "User"
               THEN WithMessage(s, c, i, [At(ms, i) EXCEPT !.isEditing = ~@])
               ELSE s

\* variant: the original text is not kept as the first version
updateMessageAndTruncate_noSeed(s, messageId, newText) ==
  LET c == ActiveConv(s)
  IN IF c = 0 THEN s
     ELSE LET ms == s.conversations[c].messages
              idx == FindIndex(ms, messageId)
          IN IF idx = -1 THEN s
             ELSE LET msg == At(ms, idx)
                      edits == Append(msg.edits, newText)
                      edited == [msg EXCEPT !.edits = edits,
                                            !.currentEditIndex = Len(edits) - 1,
                                            !.text = newText,
                                            !.isEditing = FALSE]
                  IN WithMessages(s, c, Append(Slice(ms, 0, idx), edited))

\* variant: the list is cut before the edited message
updateMessageAndTruncate_exclusive(s, messageId, newText) ==
  LET c == ActiveConv(s)
  IN IF c = 0 THEN s
     ELSE LET ms == s.conversations[c].messages
              idx == FindIndex(ms, messageId)
          IN IF idx = -1 THEN s
             ELSE WithMessages(s, c, Slice(ms, 0, idx))

updateMessageAndTruncate(s, messageId, newText) ==
  LET c == ActiveConv(s)
  IN IF c = 0 THEN s
     ELSE LET ms == s.conversations[c].messages
              idx == FindIndex(ms, messageId)
          IN IF idx = -1 THEN s
             ELSE LET msg == At(ms, idx)
                      seeded == IF msg.edits = <<>> THEN <<msg.text>> ELSE msg.edits
                      edits == Append(seeded, newText)
                      edited == [msg EXCEPT !.edits = edits,
                                            !.currentEditIndex = Len(edits) - 1,
                                            !.text = newText,
                                            !.isEditing = FALSE]
                  IN WithMessages(s, c, Append(Slice(ms, 0, idx), edited))

\* variant: the branch index follows the edit index
navigateUserEditVersion_movesBranch(s, messageId, direction) ==
  LET c == ActiveConv(s)
  IN IF c = 0 THEN s
     ELSE LET ms == s.conversations[c].messages
              i == FindIndex(ms, messageId)
          IN IF i = -1 \/ Len(At(ms, i).edits) < 2 THEN s
             ELSE LET msg == At(ms, i)
                      current == IF msg.currentEditIndex = Null
                                   THEN Len(msg.edits) - 1
                                   ELSE msg.currentEditIndex
                      nextIndex == IF direction = "prev"
                                     THEN Max2(0, current - 1)
                                     ELSE Min2(Len(msg.edits) - 1, current + 1)
                  IN WithMessage(s, c, i,
                       [msg EXCEPT !.currentEditIndex = nextIndex,
                                   !.currentBranchIndex = nextIndex,
                                   !.text = At(msg.edits, nextIndex)])

navigateUserEditVersion(s, messageId, direction) ==
  LET c == ActiveConv(s)
  IN IF c = 0 THEN s
     ELSE LET ms == s.conversations[c].messages
              i == FindIndex(ms, messageId)
          IN IF i = -1 \/ Len(At(ms, i).edits) < 2 THEN s
             ELSE LET msg == At(ms, i)
                      current == IF msg.currentEditIndex = Null
                                   THEN Len(msg.edits) - 1
                                   ELSE msg.currentEditIndex
                      nextIndex == IF direction = "prev"
                                     THEN Max2(0, current - 1)
                                     ELSE Min2(Len(msg.edits) - 1, current + 1)
                  IN WithMessage(s, c, i,
                       [msg EXCEPT !.currentEditIndex = nextIndex,
                                   !.text = At(msg.edits, nextIndex)])

navigateResponseVersion(s, messageId, direction) ==
  LET c == ActiveConv(s)
  IN IF c = 0 THEN s
     ELSE LET ms == s.conversations[c].messages
              i == FindIndex(ms, messageId)
          IN IF i = -1 \/ Len(At(ms, i).responses) <= 1 THEN s
             ELSE LET message == At(ms, i)
                      currentIndex == IF message.currentResponseIndex = Null
                                        THEN 0
                                        ELSE message.currentResponseIndex
                      newIndex == IF direction = "prev"
                                    THEN Max2(0, currentIndex - 1)
                                    ELSE Min2(Len(message.responses) - 1, currentIndex + 1)
                  IN WithMessage(s, c, i,
                       [message EXCEPT !.currentResponseIndex = newIndex,
                                       !.text = At(message.responses, newIndex)])

\* variant: responses is not seeded with the current text
addResponseVersion_noSeed(s, messageId, newResponse) ==
  LET c == ActiveConv(s)
  IN IF c = 0 THEN s
     ELSE LET ms == s.conversations[c].messages
              i == FindIndex(ms, messageId)
          IN IF i = -1 \/ At(ms, i).sender # "Bot" THEN s
             ELSE LET message == At(ms, i)
                      responses == Append(message.responses, newResponse)
                  IN WithMessage(s, c, i,
                       [message EXCEPT !.responses = responses,
                                       !.currentResponseIndex = Len(responses) - 1,
                                       !.text = newResponse])

addResponseVersion(s, messageId, newResponse) ==
  LET c == ActiveConv(s)
  IN IF c = 0 THEN s
     ELSE LET ms == s.conversations[c].messages
              i == FindIndex(ms, messageId)
          IN IF i = -1 \/ At(ms, i).sender # "Bot" THEN s
             ELSE LET message == At(ms, i)
                      seeded == IF message.responses = <<>>
                                  THEN <<message.text>>
                                  ELSE message.responses
                      responses == Append(seeded, newResponse)
                  IN WithMessage(s, c, i,
                       [message EXCEPT !.responses = responses,
                                       !.currentResponseIndex = Len(responses) - 1,
                                       !.text = newResponse])

setUserBranchIndex(s, messageId, branchIndex) ==
  LET c == ActiveConv(s)
  IN IF c = 0 THEN s
     ELSE LET ms == s.conversations[c].messages
              i == FindIndex(ms, messageId)
          IN IF i = -1 \/ At(ms, i).branches = <<>> THEN s
             ELSE WithMessage(s, c, i,
                    [At(ms, i) EXCEPT !.currentBranchIndex = branchIndex])

\* variant: the tail is pushed after the messages that are there
replaceConversationTail_appends(s, conversationId, head, tail) ==
  LET c == FindConv(s, conversationId)
  IN IF c = 0 THEN s
     ELSE WithMessages(s, c, s.conversations[c].messages \o tail)

\* variant: the tail that is replaced is stored as one more branch of the
\* last head message
replaceConversationTail_archives(s, conversationId, head, tail) ==
  LET c == FindConv(s, conversationId)
  IN IF c = 0 \/ head = <<>> THEN s
     ELSE LET old == s.conversations[c].messages
              kept == [head[Len(head)] EXCEPT
                         !.branches = Append(@, Slice(old, Len(head), Len(old)))]
          IN WithMessages(s, c, SubSeq(head, 1, Len(head) - 1) \o <<kept>> \o tail)

replaceConversationTail(s, conversationId, head, tail) ==
  LET c == FindConv(s, conversationId)
  IN IF c = 0 THEN s ELSE WithMessages(s, c, head \o tail)

\* ------------------------------------------- extraReducers (thunk lifecycle)
sendChatMessageStream_pending(s) ==
  [s EXCEPT !.isLoading = TRUE, !.error = "null"]

sendChatMessageStream_fulfilled(s) ==
  [s EXCEPT !.isLoading = FALSE, !.error = "null"]

\* variant: the failed stream's placeholder is dropped
sendChatMessageStream_rejected_dropsPartial(s, message) ==
  LET c == ActiveConv(s)
      p == s.streamingMessageIndex
      s1 == [s EXCEPT !.isLoading = FALSE,
                      !.error = message,
                      !.streamingMessageIndex = Null]
  IN IF c # 0 /\ p # Null /\ ~StreamTargetMissing(s)
       THEN WithMessages(s1, c, Slice(s.conversations[c].messages, 0, p))
       ELSE s1

sendChatMessageStream_rejected(s, message) ==
  [s EXCEPT !.isLoading = FALSE,
            !.error = IF message = "" THEN "Something went wrong" ELSE message,
            !.streamingMessageIndex = Null]

\* variant: the tail is cut off without being archived
regenerateFromMessage_pending_noArchive(s, messageId) ==
  LET s1 == [s EXCEPT !.isLoading = TRUE, !.error = "null"]
      c == ActiveConv(s1)
  IN IF c = 0 THEN s1
     ELSE LET ms == s1.conversations[c].messages
              idx == FindIndex(ms, messageId)
          IN IF idx < 0 THEN s1
             ELSE WithMessages(s1, c, Slice(ms, 0, idx + 1))

regenerateFromMessage_pending(s, messageId) ==
  LET s1 == [s EXCEPT !.isLoading = TRUE, !.error = "null"]
      c == ActiveConv(s1)
  IN IF c = 0 THEN s1
     ELSE LET ms == s1.conversations[c].messages
              idx == FindIndex(ms, messageId)
          IN IF idx < 0 THEN s1
             ELSE LET userMsg == At(ms, idx)
                      oldTail == Slice(ms, idx + 1, Len(ms))
                      archived ==
                        IF userMsg.branches = <<>>
                          THEN [userMsg EXCEPT !.branches = <<oldTail>>,
                                               !.currentBranchIndex = 0]
                          ELSE userMsg
                  IN WithMessages(s1, c, Append(Slice(ms, 0, idx), archived))

\* userMsg.branches!.push(newTail) on a message without branches throws
regenerateFromMessage_fulfilledThrows(s, messageId) ==
  LET c == ActiveConv(s)
  IN /\ c # 0
     /\ LET ms == s.conversations[c].messages
            idx == FindIndex(ms, messageId)
        IN idx >= 0 /\ At(ms, idx).branches = <<>>

regenerateFromMessage_fulfilled(s, messageId) ==
  LET s1 == [s EXCEPT !.isLoading = FALSE, !.error = "null"]
      c == ActiveConv(s1)
  IN IF regenerateFromMessage_fulfilledThrows(s, messageId) THEN s
     ELSE IF c = 0 THEN s1
     ELSE LET ms == s1.conversations[c].messages
              idx == FindIndex(ms, messageId)
          IN IF idx < 0 THEN s1
             ELSE LET userMsg == At(ms, idx)
                      newTail == Slice(ms, idx + 1, Len(ms))
                      branches == Append(userMsg.branches, newTail)
                  IN WithMessage(s1, c, idx,
                       [userMsg EXCEPT !.branches = branches,
                                       !.currentBranchIndex = Len(branches) - 1])

regenerateFromMessage_rejected(s, message) ==
  [s EXCEPT !.isLoading = FALSE,
            !.error = IF message = "" THEN "Regeneration failed" ELSE message,
            !.streamingMessageIndex = Null]

fetchAvailableModels_pending(s) ==
  [s EXCEPT !.modelsLoading = TRUE, !.modelsError = "null"]

\* variant: the selection is kept whatever the list holds
fetchAvailableModels_fulfilled_keeps(s, payload) ==
  [s EXCEPT !.modelsLoading = FALSE,
            !.availableModels = payload,
            !.modelsError = "null"]

fetchAvailableModels_fulfilled(s, payload) ==
  [s EXCEPT !.modelsLoading = FALSE,
            !.availableModels = payload,
            !.modelsError = "null",
            !.selectedModel =
               IF \E k \in 1..Len(payload) : payload[k] = s.selectedModel
                 THEN @
                 ELSE IF Len(payload) > 0 THEN payload[1] ELSE DefaultModel]

fetchAvailableModels_rejected(s, message) ==
  [s EXCEPT !.modelsLoading = FALSE, !.modelsError = message]

\* the tool reducers; the error texts of the tools are left out
webSearch_pending(s) ==
  [s EXCEPT !.searchLoading = TRUE, !.searchResults = <<>>]

webSearch_fulfilled(s, payload) ==
  [s EXCEPT !.searchLoading = FALSE, !.searchResults = payload]

webSearch_rejected(s) ==
  [s EXCEPT !.searchLoading = FALSE, !.searchResults = <<>>]

generateImage_pending(s) == [s EXCEPT !.imageLoading = TRUE]

generateImage_fulfilled(s, prompt, payload) ==
  [s EXCEPT !.imageLoading = FALSE,
            !.generatedImageUrl = payload,
            !.imageHistory = Append(@, [prompt |-> prompt, url |-> payload])]

generateImage_rejected(s) == [s EXCEPT !.imageLoading = FALSE]

regenerateResponse_pending(s) ==
  [s EXCEPT !.isLoading = TRUE, !.error = "null"]

regenerateResponse_fulfilled(s) ==
  [s EXCEPT !.isLoading = FALSE, !.error = "null"]

regenerateResponse_rejected(s, message) ==
  [s EXCEPT !.isLoading = FALSE,
            !.error = IF message = "" THEN "Response regeneration failed" ELSE message,
            !.streamingMessageIndex = Null]

\* ----------------------------------------------------- async operations
\* One record per started operation: kind, position, the arguments
\* (messageId or the image handler's loadingId; the message text), the
\* activeConversationId it read when it started, and the chunks read so far.
\* botId, clean and switched are bookkeeping for the properties: the id
\* addBotMessage gave this stream's placeholder (0: none), whether nothing but
\* this stream's own events has run since the placeholder was created, and
\* whether switchConversation has run since the operation started.
\* --------------------------------------------------- the response body
\* A body is a sequence of frames, each a line and an empty line; cut says
\* that the last frame comes without its line ends.  A text of the body is a
\* sequence of pieces: "data: " stands for those six characters, "\n" is
\* the line end, and the JSON of a frame is written in the pieces "{",
\* "chunk", "done", the chunk text and "}".
FrameKinds == { "x", "y", "done", "bad", "empty", "ping" }

LineOf(kind) ==
  CASE kind \in { "x", "y" } -> <<"data: ", "{", "chunk", kind, "}">>
    [] kind = "done" -> <<"data: ", "{", "done", "}">>
    [] kind = "bad" -> <<"data: ", "{", "chunk">>     \* JSON that does not parse
    [] kind = "empty" -> <<"data: ", "{", "}">>        \* neither chunk nor done
    [] kind = "ping" -> <<":", "ping">>                \* not a data line

RECURSIVE WireOf(_, _)
WireOf(frames, cut) ==
  IF frames = <<>> THEN <<>>
  ELSE IF Len(frames) = 1 /\ cut THEN LineOf(frames[1])
  ELSE LineOf(frames[1]) \o <<"\n", "\n">> \o WireOf(Tail(frames), cut)

Bodies ==
  { [ frames |-> f, cut |-> c ] :
      f \in UNION { [1..n -> FrameKinds] : n \in 0..MaxFrames },
      c \in BOOLEAN } \ { [ frames |-> <<>>, cut |-> TRUE ] }

\* the locals of the read loop: the body, how much of it has been read, the
\* buffer; finished counts the finishStreaming dispatches of the operation
NoReader == [ frames |-> <<>>, cut |-> FALSE, pos |-> 0, buffer |-> <<>>,
              finished |-> 0 ]

\* text.split('\n')
RECURSIVE split(_)
split(text) ==
  IF \E k \in 1..Len(text) : text[k] = "\n"
    THEN LET k == CHOOSE k \in 1..Len(text) :
                    /\ text[k] = "\n"
                    /\ \A j \in 1..(k - 1) : text[j] # "\n"
         IN <<SubSeq(text, 1, k - 1)>> \o split(SubSeq(text, k + 1, Len(text)))
    ELSE <<text>>

\* variant: what follows the last line end is thrown away
ReadLines_dropsRest(buffer, value) ==
  LET lines == split(buffer \o value)
  IN [ lines |-> SubSeq(lines, 1, Len(lines) - 1), buffer |-> <<>> ]

\* buffer += decode(value); lines = buffer.split('\n'); buffer = lines.pop() || ''
ReadLines(buffer, value) ==
  LET lines == split(buffer \o value)
  IN [ lines |-> SubSeq(lines, 1, Len(lines) - 1), buffer |-> lines[Len(lines)] ]

\* JSON.parse of the pieces after "data: "
JSONParse(text) ==
  IF Len(text) = 4 /\ text[1] = "{" /\ text[2] = "chunk" /\ text[4] = "}"
    THEN [ type |-> "chunk", chunk |-> <<text[3]>> ]
  ELSE IF text = <<"{", "done", "}">> THEN [ type |-> "done", chunk |-> <<>> ]
  ELSE IF text = <<"{", "}">> THEN [ type |-> "other", chunk |-> <<>> ]
  ELSE [ type |-> "throws", chunk |-> <<>> ]

\* variant: a frame that does not parse ends the stream
FrameOf_badEnds(line) ==
  IF line # <<>> /\ line[1] = "data: "
    THEN IF JSONParse(Tail(line)).type = "throws"
           THEN [ type |-> "done", chunk |-> <<>> ]
           ELSE JSONParse(Tail(line))
    ELSE [ type |-> "other", chunk |-> <<>> ]

\* what the body of `for (const line of lines)` finds in a line
FrameOf(line) ==
  IF line # <<>> /\ line[1] = "data: "
    THEN JSONParse(Tail(line))
    ELSE [ type |-> "other", chunk |-> <<>> ]

\* request is the body of the POST /chat the operation is waiting for
NoRequest == [ message |-> <<>>, history |-> <<>> ]

NewThunk(kind, pc, arg, text, conv) ==
  [ kind |-> kind, pc |-> pc, arg |-> arg, text |-> text, conv |-> conv,
    botId |-> 0, recv |-> <<>>, clean |-> TRUE, switched |-> FALSE,
    request |-> NoRequest, reader |-> NoReader ]

formatHistoryForAPI(messages) ==
  [ i \in 1..Len(messages) |->
      [ role |-> IF messages[i].sender = "User" THEN "user" ELSE "assistant",
        content |-> messages[i].text ] ]

\* the messages of the active conversation, as the body of a thunk reads
\* them from getState()
MessagesIn(s) ==
  IF ActiveConv(s) = 0 THEN <<>> ELSE s.conversations[ActiveConv(s)].messages

\* variant: the history leaves out the message that was just added
sendChatMessageStream_request_skipsLast(s, message) ==
  [ message |-> message,
    history |-> formatHistoryForAPI(
                  SubSeq(MessagesIn(s), 1, Len(MessagesIn(s)) - 1)) ]

sendChatMessageStream_request(s, message) ==
  [ message |-> message, history |-> formatHistoryForAPI(MessagesIn(s)) ]

regenerateFromMessage_request(s, messageId, newText) ==
  LET messageIndex == FindIndex(MessagesIn(s), messageId)
  IN [ message |-> newText,
       history |-> formatHistoryForAPI(Slice(MessagesIn(s), 0, messageIndex)) ]

regenerateResponse_request(s, messageId) ==
  LET messageIndex == FindIndex(MessagesIn(s), messageId)
  IN [ message |-> At(MessagesIn(s), messageIndex - 1).text,
       history |-> formatHistoryForAPI(
                     Slice(MessagesIn(s), 0, messageIndex - 1)) ]

\* a settled operation: its locals are gone
Settled(th, pc) == NewThunk(th.kind, pc, 0, <<>>, 0)

StreamKinds == { "send", "regenFrom" }
ChatKinds == { "send", "regenFrom", "regenResp" }
ToolKinds == { "search", "image" }

RECURSIVE Concat(_)
Concat(chunks) ==
  IF chunks = <<>> THEN <<>> ELSE Head(chunks) \o Concat(Tail(chunks))

Disturb(ts, self) ==
  [ i \in 1..Len(ts) |->
      IF i # self /\ ts[i].pc = "stream" THEN [ts[i] EXCEPT !.clean = FALSE]
      ELSE ts[i] ]

Switched(ts) ==
  [ i \in 1..Len(ts) |->
      IF ts[i].pc \in {"fetch", "stream"} /\ ts[i].kind \in StreamKinds
        THEN [ts[i] EXCEPT !.switched = TRUE]
        ELSE ts[i] ]


\* what a run may start: conversations, operations, and whether the tools
\* are used
Wide == [ convs |-> MaxConvs, ops |-> MaxThunks, tools |-> TRUE, texts |-> UserTexts, fetches |-> 0, bytes |-> FALSE ]
Deep == [ convs |-> 1, ops |-> MaxDeep, tools |-> FALSE, texts |-> UserTexts, fetches |-> 0, bytes |-> FALSE ]
Long == [ convs |-> 1, ops |-> MaxLong, tools |-> FALSE, texts |-> UserTexts, fetches |-> 0, bytes |-> FALSE ]
LongWide == [ convs |-> MaxConvs, ops |-> MaxLong, tools |-> FALSE, texts |-> UserTexts, fetches |-> 0, bytes |-> FALSE ]
Many == [ convs |-> MaxMany, ops |-> 1, tools |-> FALSE, texts |-> UserTexts,
          fetches |-> MaxFetches, bytes |-> FALSE ]
Titled == [ convs |-> 1, ops |-> MaxTitled, tools |-> FALSE, texts |-> TitledTexts, fetches |-> 0, bytes |-> FALSE ]
Bytes == [ convs |-> 1, ops |-> 1, tools |-> FALSE, texts |-> UserTexts, fetches |-> 0, bytes |-> TRUE ]

Start(b) ==
  /\ chat = initialState
  /\ thunks = <<>>
  /\ nextId = 1
  /\ nextConvId = 1
  /\ budget = b
  /\ modelThunks = <<>>

Init == Start(Wide)

InitDeep == Start(Deep)

InitLong == Start(Long)

InitLongWide == Start(LongWide)

InitMany == Start(Many)

InitTitled == Start(Titled)

InitBytes == Start(Bytes)

ActiveMessages ==
  IF ActiveConv(chat) = 0 THEN <<>>
  ELSE chat.conversations[ActiveConv(chat)].messages

ActiveIds == { ActiveMessages[i].id : i \in 1..Len(ActiveMessages) }

Msg(id) == At(ActiveMessages, FindIndex(ActiveMessages, id))

\* ------------------------------------------------ conversation collection
\* Chat: useEffect creates the first conversation when the collection is empty
MountCreate ==
  /\ Len(chat.conversations) = 0
  /\ nextConvId <= budget.convs
  /\ chat' = createNewConversation(chat, nextConvId)
  /\ nextConvId' = nextConvId + 1
  /\ thunks' = Disturb(thunks, 0)
  /\ UNCHANGED <<nextId, budget, modelThunks>>

\* Sidebar "New chat"; the mount effect above has run before any click
HandleNewChat ==
  /\ Len(chat.conversations) > 0
  /\ nextConvId <= budget.convs
  /\ chat' = createNewConversation(chat, nextConvId)
  /\ nextConvId' = nextConvId + 1
  /\ thunks' = Disturb(thunks, 0)
  /\ UNCHANGED <<nextId, budget, modelThunks>>

HandleConversationClick ==
  \E i \in 1..Len(chat.conversations) :
    /\ chat' = switchConversation(chat, chat.conversations[i].id)
    /\ thunks' = Switched(Disturb(thunks, 0))
    /\ UNCHANGED <<nextId, nextConvId, budget, modelThunks>>

HandleDeleteConversation ==
  \E i \in 1..Len(chat.conversations) :
    /\ Len(chat.conversations) > 1
    /\ chat' = deleteConversation(chat, chat.conversations[i].id)
    /\ thunks' = Disturb(thunks, 0)
    /\ UNCHANGED <<nextId, nextConvId, budget, modelThunks>>

\* page.tsx and Sidebar: each dispatches fetchAvailableModels in its mount
\* effect, before any response and before any operation
MountFetchModels ==
  /\ Len(modelThunks) < Min2(2, budget.fetches)
  /\ \A k \in 1..Len(modelThunks) : modelThunks[k] = "pending"
  /\ thunks = <<>>
  /\ chat' = fetchAvailableModels_pending(chat)
  /\ modelThunks' = Append(modelThunks, "pending")
  /\ UNCHANGED <<thunks, nextId, nextConvId, budget>>

\* Sidebar: the Retry button shown in place of the list after a failure
HandleRetryModels ==
  /\ Len(modelThunks) < budget.fetches
  /\ ~chat.modelsLoading
  /\ chat.modelsError # "null"
  /\ chat' = fetchAvailableModels_pending(chat)
  /\ modelThunks' = Append(modelThunks, "pending")
  /\ thunks' = Disturb(thunks, 0)
  /\ UNCHANGED <<nextId, nextConvId, budget>>

\* GET /models answered with a list
ModelsRespond ==
  \E k \in 1..Len(modelThunks), payload \in ModelLists :
    /\ modelThunks[k] = "pending"
    /\ chat' = fetchAvailableModels_fulfilled(chat, payload)
    /\ modelThunks' = [modelThunks EXCEPT ![k] = "settled"]
    /\ thunks' = Disturb(thunks, 0)
    /\ UNCHANGED <<nextId, nextConvId, budget>>

\* GET /models failed, or answered with a status that is not ok
ModelsFail ==
  \E k \in 1..Len(modelThunks) :
    /\ modelThunks[k] = "pending"
    /\ chat' = fetchAvailableModels_rejected(chat, "Failed to fetch models")
    /\ modelThunks' = [modelThunks EXCEPT ![k] = "settled"]
    /\ thunks' = Disturb(thunks, 0)
    /\ UNCHANGED <<nextId, nextConvId, budget>>

\* Sidebar model selector: the list is rendered when the models are neither
\* loading nor failed
HandleModelChange ==
  \E k \in 1..Len(chat.availableModels) :
    /\ ~chat.modelsLoading
    /\ chat.modelsError = "null"
    /\ chat' = setSelectedModel(chat, chat.availableModels[k])
    /\ thunks' = Disturb(thunks, 0)
    /\ UNCHANGED <<nextId, nextConvId, budget, modelThunks>>

\* ------------------------------------------------------ starting operations
\* The input box and the send button are disabled while isLoading; the
\* component renders them only when the active conversation exists.
CanStartFromInput ==
  /\ ActiveConv(chat) # 0
  /\ ~chat.isLoading
  /\ Len(ActiveMessages) < MaxMsgs

HandleSend ==
  \E text \in budget.texts :
    /\ CanStartFromInput
    /\ Len(thunks) < budget.ops
    /\ LET userMessage == NewMessage(nextId, "User", text, FALSE)
           s1 == addMessage(chat, chat.activeConversationId, userMessage)
       IN chat' = sendChatMessageStream_pending(s1)
    /\ thunks' = Append(Disturb(thunks, 0),
                        [NewThunk("send", "fetch", 0, text, chat.activeConversationId)
                           EXCEPT !.request = sendChatMessageStream_request(
                                     addMessage(chat, chat.activeConversationId,
                                                NewMessage(nextId, "User", text, FALSE)),
                                     text)])
    /\ nextId' = nextId + 1
    /\ UNCHANGED <<nextConvId, budget, modelThunks>>

HandleSearch ==
  \E text \in budget.texts :
    /\ CanStartFromInput
    /\ budget.tools
    /\ Len(thunks) < budget.ops
    /\ chat' = webSearch_pending(
                 addMessage(chat, chat.activeConversationId,
                            NewMessage(nextId, "User", text, FALSE)))
    /\ thunks' = Append(Disturb(thunks, 0),
                        NewThunk("search", "fetch", 0, text, chat.activeConversationId))
    /\ nextId' = nextId + 1
    /\ UNCHANGED <<nextConvId, budget, modelThunks>>

HandleGenerateImage ==
  \E text \in budget.texts :
    /\ CanStartFromInput
    /\ budget.tools
    /\ Len(thunks) < budget.ops
    /\ LET loadingId == nextId + 1
           s1 == addMessage(chat, chat.activeConversationId,
                            NewMessage(nextId, "User", text, FALSE))
       IN /\ chat' = generateImage_pending(
                      addMessage(s1, chat.activeConversationId,
                                 NewMessage(loadingId, "Bot", LoadingText, FALSE)))
          /\ thunks' = Append(Disturb(thunks, 0),
                              NewThunk("image", "fetch", loadingId, text,
                                       chat.activeConversationId))
    /\ nextId' = nextId + 2
    /\ UNCHANGED <<nextConvId, budget, modelThunks>>

\* The edit button is rendered only while not loading; Cancel in the open
\* edit box is always there.
HandleToggleEdit ==
  \E id \in ActiveIds :
    /\ Msg(id).sender = "User"
    /\ Msg(id).isEditing \/ ~chat.isLoading
    /\ chat' = toggleMessageEdit(chat, id)
    /\ thunks' = Disturb(thunks, 0)
    /\ UNCHANGED <<nextId, nextConvId, budget, modelThunks>>

\* Save in the open edit box: dispatch(regenerateFromMessage(...)).  The
\* pending reducer and the thunk body up to its first await run in this task.
HandleSaveEdit ==
  \E id \in ActiveIds, newText \in EditTexts :
    /\ Msg(id).isEditing
    /\ Len(thunks) < budget.ops
    /\ LET s1 == regenerateFromMessage_pending(chat, id)
       IN chat' = updateMessageAndTruncate(s1, id, newText)
    /\ thunks' = Append(Disturb(thunks, 0),
                        [NewThunk("regenFrom", "fetch", id, newText,
                                  chat.activeConversationId)
                           EXCEPT !.request = regenerateFromMessage_request(
                                     regenerateFromMessage_pending(chat, id),
                                     id, newText)])
    /\ UNCHANGED <<nextId, nextConvId, budget, modelThunks>>

\* The regenerate button of a bot message, rendered when it is not streaming
\* and nothing is loading.  The body rejects at once when the message before
\* it is not a User message.
HandleRegenerateResponse ==
  \E id \in ActiveIds :
    /\ Msg(id).sender = "Bot"
    /\ ~Msg(id).isStreaming
    /\ ~chat.isLoading
    /\ Len(thunks) < budget.ops
    /\ LET s1 == regenerateResponse_pending(chat)
           messageIndex == FindIndex(ActiveMessages, id)
           hasPrompt == /\ messageIndex > 0
                        /\ At(ActiveMessages, messageIndex - 1).sender = "User"
       IN IF hasPrompt
            THEN /\ chat' = s1
                 /\ thunks' = Append(Disturb(thunks, 0),
                                     [NewThunk("regenResp", "fetch", id, <<>>,
                                               chat.activeConversationId)
                                        EXCEPT !.request =
                                                 regenerateResponse_request(s1, id)])
            ELSE /\ chat' = regenerateResponse_rejected(s1, "No user message found to regenerate from")
                 /\ thunks' = Append(Disturb(thunks, 0),
                                     Settled([kind |-> "regenResp"], "failed"))
    /\ UNCHANGED <<nextId, nextConvId, budget, modelThunks>>

\* ------------------------------------------------- thunk continuations
\* fetch resolved with response.ok: the stream thunks create the placeholder
FetchResponds ==
  \E t \in 1..Len(thunks),
     body \in IF budget.bytes THEN Bodies ELSE { [ frames |-> <<>>, cut |-> FALSE ] } :
    /\ thunks[t].pc = "fetch"
    /\ thunks[t].kind \in ChatKinds
    /\ IF thunks[t].kind \in StreamKinds
         THEN /\ chat' = addBotMessage(chat, nextId, <<>>)
              /\ nextId' = nextId + 1
              /\ thunks' = [Disturb(thunks, t) EXCEPT
                              ![t].pc = "stream",
                              ![t].request = NoRequest,
                              ![t].reader = [NoReader EXCEPT
                                               !.frames = body.frames,
                                               !.cut = body.cut],
                              ![t].clean = TRUE,
                              ![t].botId = IF ActiveConv(chat) # 0 THEN nextId ELSE 0]
         ELSE /\ thunks' = [Disturb(thunks, t) EXCEPT ![t].pc = "stream",
                                                      ![t].request = NoRequest]
              /\ UNCHANGED <<chat, nextId>>
    /\ UNCHANGED <<nextConvId, budget, modelThunks>>

Rejected(s, kind, message) ==
  CASE kind = "send" -> sendChatMessageStream_rejected(s, message)
    [] kind = "regenFrom" -> regenerateFromMessage_rejected(s, message)
    [] kind = "regenResp" -> regenerateResponse_rejected(s, message)

Fulfilled(s, kind, arg) ==
  CASE kind = "send" -> sendChatMessageStream_fulfilled(s)
    [] kind = "regenFrom" -> regenerateFromMessage_fulfilled(s, arg)
    [] kind = "regenResp" -> regenerateResponse_fulfilled(s)

\* fetch rejected, or response.ok false: the body throws before any dispatch
FetchFails ==
  \E t \in 1..Len(thunks) :
    /\ thunks[t].pc = "fetch"
    /\ thunks[t].kind \in ChatKinds
    /\ chat' = Rejected(chat, thunks[t].kind, "Failed to fetch")
    /\ thunks' = [Disturb(thunks, t) EXCEPT ![t] = Settled(@, "failed")]
    /\ UNCHANGED <<nextId, nextConvId, budget, modelThunks>>

\* a `data: {"chunk": ...}` frame; a throwing dispatch is caught by the
\* try around the frame and the loop goes on
StreamChunk ==
  \E t \in 1..Len(thunks) :
    LET chunk == ChunkText(Len(thunks[t].recv) + 1) IN
    /\ thunks[t].pc = "stream"
    /\ Len(thunks[t].recv) < MaxChunks
    /\ chat' = IF thunks[t].kind \in StreamKinds
                 THEN appendToLastBotMessage(chat, chunk)
                 ELSE chat
    /\ thunks' = [Disturb(thunks, t) EXCEPT ![t].recv = Append(@, chunk)]
    /\ UNCHANGED <<nextId, nextConvId, budget, modelThunks>>

\* what the thunk does when the stream is complete: finishStreaming, or
\* addResponseVersion with the accumulated text, and then `fulfilled`
Complete(s, th) ==
  IF th.kind \in StreamKinds
    THEN Fulfilled(finishStreaming(s), th.kind, th.arg)
    ELSE Fulfilled(addResponseVersion(s, th.arg, Concat(th.recv)), th.kind, th.arg)

\* a `data: {"done": true}` frame.  When finishStreaming throws inside the
\* try, the return is skipped and the loop goes on reading.
StreamDoneFrame ==
  \E t \in 1..Len(thunks) :
    /\ thunks[t].pc = "stream"
    /\ IF thunks[t].kind \in StreamKinds /\ StreamTargetMissing(chat)
         THEN /\ thunks' = Disturb(thunks, t)
              /\ UNCHANGED chat
         ELSE /\ chat' = Complete(chat, thunks[t])
              /\ thunks' = [Disturb(thunks, t) EXCEPT ![t] = Settled(@, "done")]
    /\ UNCHANGED <<nextId, nextConvId, budget, modelThunks>>

\* reader.read() returned done: the dispatch after the loop is outside the
\* try, so a throwing finishStreaming rejects the thunk
StreamEnd ==
  \E t \in 1..Len(thunks) :
    /\ thunks[t].pc = "stream"
    /\ IF thunks[t].kind \in StreamKinds /\ StreamTargetMissing(chat)
         THEN /\ chat' = Rejected(chat, thunks[t].kind, "TypeError")
              /\ thunks' = [Disturb(thunks, t) EXCEPT ![t] = Settled(@, "failed")]
         ELSE /\ chat' = Complete(chat, thunks[t])
              /\ thunks' = [Disturb(thunks, t) EXCEPT ![t] = Settled(@, "done")]
    /\ UNCHANGED <<nextId, nextConvId, budget, modelThunks>>

\* reader.read() rejected
StreamError ==
  \E t \in 1..Len(thunks) :
    /\ thunks[t].pc = "stream"
    /\ chat' = Rejected(chat, thunks[t].kind, "network error")
    /\ thunks' = [Disturb(thunks, t) EXCEPT ![t] = Settled(@, "failed")]
    /\ UNCHANGED <<nextId, nextConvId, budget, modelThunks>>

\* ---- the read loop of sendChatMessageStream / regenerateFromMessage,
\* taken read by read.  r is the store state, whether the thunk has
\* returned, and the finishStreaming dispatches so far.
OnLine(r, line) ==
  LET data == FrameOf(line)
  IN CASE data.type = "chunk" ->
            [r EXCEPT !.chat = appendToLastBotMessage(@, data.chunk)]
       [] data.type = "done" ->
            IF StreamTargetMissing(r.chat) THEN r
            ELSE [ chat |-> finishStreaming(r.chat), returned |-> TRUE,
                   finished |-> r.finished + 1 ]
       [] OTHER -> r

RECURSIVE ForLines(_, _)
ForLines(r, lines) ==
  IF lines = <<>> \/ r.returned THEN r
  ELSE ForLines(OnLine(r, Head(lines)), Tail(lines))

\* the body of the operation, and the locals kept once it has settled
WireOfThunk(th) == WireOf(th.reader.frames, th.reader.cut)

SettledReader(th, pc, finished) ==
  [Settled(th, pc) EXCEPT !.reader = [NoReader EXCEPT
                                        !.frames = th.reader.frames,
                                        !.cut = th.reader.cut,
                                        !.finished = finished]]

\* reader.read() resolved with the next n pieces of the body
ReaderRead ==
  \E t \in 1..Len(thunks) :
    /\ budget.bytes
    /\ thunks[t].pc = "stream"
    /\ thunks[t].kind \in StreamKinds
    /\ \E n \in 1..(Len(WireOfThunk(thunks[t])) - thunks[t].reader.pos) :
         LET rd == thunks[t].reader
             value == SubSeq(WireOfThunk(thunks[t]), rd.pos + 1, rd.pos + n)
             read == ReadLines(rd.buffer, value)
             r == ForLines([ chat |-> chat, returned |-> FALSE,
                             finished |-> rd.finished ], read.lines)
         IN IF r.returned
              THEN /\ chat' = Fulfilled(r.chat, thunks[t].kind, thunks[t].arg)
                   /\ thunks' = [Disturb(thunks, t) EXCEPT
                                   ![t] = SettledReader(@, "done", r.finished)]
              ELSE /\ chat' = r.chat
                   /\ thunks' = [Disturb(thunks, t) EXCEPT
                                   ![t].reader = [rd EXCEPT !.pos = @ + n,
                                                            !.buffer = read.buffer]]
    /\ UNCHANGED <<nextId, nextConvId, budget, modelThunks>>

\* reader.read() resolved with done: the dispatch after the loop
ReaderEnd ==
  \E t \in 1..Len(thunks) :
    /\ budget.bytes
    /\ thunks[t].pc = "stream"
    /\ thunks[t].kind \in StreamKinds
    /\ thunks[t].reader.pos = Len(WireOfThunk(thunks[t]))
    /\ IF StreamTargetMissing(chat)
         THEN /\ chat' = Rejected(chat, thunks[t].kind, "TypeError")
              /\ thunks' = [Disturb(thunks, t) EXCEPT
                              ![t] = SettledReader(@, "failed", @.reader.finished)]
         ELSE /\ chat' = Complete(chat, thunks[t])
              /\ thunks' = [Disturb(thunks, t) EXCEPT
                              ![t] = SettledReader(@, "done", @.reader.finished + 1)]
    /\ UNCHANGED <<nextId, nextConvId, budget, modelThunks>>

\* handleSearch after the await: the results message, or nothing on failure
SearchSettles ==
  \E t \in 1..Len(thunks), ok \in BOOLEAN :
    /\ thunks[t].pc = "fetch"
    /\ thunks[t].kind = "search"
    /\ IF ok
         THEN /\ chat' = addMessage(webSearch_fulfilled(chat, SearchPayload), thunks[t].conv,
                                    NewMessage(nextId, "Bot", SearchText, FALSE))
              /\ nextId' = nextId + 1
              /\ thunks' = [Disturb(thunks, t) EXCEPT ![t] = Settled(@, "done")]
         ELSE /\ chat' = webSearch_rejected(chat)
              /\ thunks' = [Disturb(thunks, t) EXCEPT ![t] = Settled(@, "failed")]
              /\ UNCHANGED nextId
    /\ UNCHANGED <<nextConvId, budget, modelThunks>>

\* handleGenerateImage after the await: the placeholder text is replaced
ImageSettles ==
  \E t \in 1..Len(thunks), ok \in BOOLEAN :
    /\ thunks[t].pc = "fetch"
    /\ thunks[t].kind = "image"
    /\ chat' = updateMessageText(IF ok THEN generateImage_fulfilled(
                                                 chat, thunks[t].text, ImageUrl)
                                       ELSE generateImage_rejected(chat),
                                 thunks[t].conv, thunks[t].arg,
                                 IF ok THEN ImageText ELSE ImageFailText)
    /\ thunks' = [Disturb(thunks, t) EXCEPT
                    ![t] = Settled(@, IF ok THEN "done" ELSE "failed")]
    /\ UNCHANGED <<nextId, nextConvId, budget, modelThunks>>

\* ------------------------------------------------------------ navigation
\* prev/next of a bot message's response versions; a button at the boundary
\* is disabled
HandleNavigateResponse ==
  \E id \in ActiveIds, direction \in {"prev", "next"} :
    /\ Msg(id).sender = "Bot"
    /\ ~Msg(id).isStreaming
    /\ ~chat.isLoading
    /\ Len(Msg(id).responses) > 1
    /\ LET shown == IF Msg(id).currentResponseIndex = Null
                      THEN 0 ELSE Msg(id).currentResponseIndex
       IN IF direction = "prev" THEN shown # 0
          ELSE shown # Len(Msg(id).responses) - 1
    /\ chat' = navigateResponseVersion(chat, id, direction)
    /\ thunks' = Disturb(thunks, 0)
    /\ UNCHANGED <<nextId, nextConvId, budget, modelThunks>>

Clamp(lo, hi, x) == Max2(lo, Min2(hi, x))

OrElse(x, fallback) == IF x = Null THEN fallback ELSE x

Step(direction, i) == IF direction = "prev" THEN i - 1 ELSE i + 1

\* Chat.tsx: the handler reads conv and userMsg from the state of the last
\* render, dispatches the two index updates, and then replaces the whole
\* message list by a head built from that earlier userMsg
Chat_handleNavigateUserEdit(s, messageId, direction) ==
  LET conv == s.conversations[ActiveConv(s)]
      idx == FindIndex(conv.messages, messageId)
      userMsg == At(conv.messages, idx)
      oldEditIndex == OrElse(userMsg.currentEditIndex, 0)
      newEditIndex == Clamp(0, Len(userMsg.edits) - 1, Step(direction, oldEditIndex))
      newText == At(userMsg.edits, newEditIndex)
      s1 == navigateUserEditVersion(s, messageId, direction)
      oldBranch == OrElse(userMsg.currentBranchIndex, 0)
      newBranch == Clamp(0, Len(userMsg.branches) - 1, Step(direction, oldBranch))
      s2 == setUserBranchIndex(s1, messageId, newBranch)
      head == Append(Slice(conv.messages, 0, idx), [userMsg EXCEPT !.text = newText])
      tail == At(userMsg.branches, newBranch)
  IN IF userMsg.edits = <<>> THEN s      \* userMsg.edits![...] throws
     ELSE replaceConversationTail(s2, s.activeConversationId, head, tail)

\* Chat.tsx renders the two buttons for a user message with more than one
\* branch, outside edit mode and while nothing is loading; each is disabled
\* at its end of the branch list
UserNavButton(s, id, direction) ==
  /\ ActiveConv(s) # 0
  /\ LET ms == s.conversations[ActiveConv(s)].messages
         idx == FindIndex(ms, id)
     IN /\ idx >= 0
        /\ At(ms, idx).sender = "User"
        /\ Len(At(ms, idx).branches) > 1
        /\ ~At(ms, idx).isEditing
        /\ ~s.isLoading
        /\ LET shown == OrElse(At(ms, idx).currentBranchIndex, 0)
           IN IF direction = "prev" THEN shown # 0
              ELSE shown # Len(At(ms, idx).branches) - 1

HandleNavigateUserEdit ==
  \E id \in ActiveIds, direction \in {"prev", "next"} :
    /\ UserNavButton(chat, id, direction)
    /\ chat' = Chat_handleNavigateUserEdit(chat, id, direction)
    /\ thunks' = Disturb(thunks, 0)
    /\ UNCHANGED <<nextId, nextConvId, budget, modelThunks>>

\* ------------------------------------------------------------ specification
Next ==
  \/ MountCreate
  \/ HandleNewChat
  \/ HandleConversationClick
  \/ HandleDeleteConversation
  \/ HandleSend
  \/ HandleSearch
  \/ HandleGenerateImage
  \/ HandleToggleEdit
  \/ HandleSaveEdit
  \/ HandleRegenerateResponse
  \/ FetchResponds
  \/ FetchFails
  \/ StreamChunk
  \/ StreamDoneFrame
  \/ StreamEnd
  \/ StreamError
  \/ SearchSettles
  \/ ImageSettles
  \/ HandleNavigateResponse
  \/ HandleNavigateUserEdit

Spec == Init /\ [][Next]_vars

\* one conversation, no tools, one more operation
NextDeep ==
  \/ MountCreate
  \/ HandleConversationClick
  \/ HandleSend
  \/ HandleToggleEdit
  \/ HandleSaveEdit
  \/ HandleRegenerateResponse
  \/ FetchResponds
  \/ FetchFails
  \/ StreamChunk
  \/ StreamDoneFrame
  \/ StreamEnd
  \/ StreamError
  \/ HandleNavigateResponse
  \/ HandleNavigateUserEdit

SpecDeep == InitDeep /\ [][NextDeep]_vars

\* one conversation, no tools, four operations; a request fails or is
\* answered by a stream that carries the done frame and no chunk
NextLong ==
  \/ MountCreate
  \/ HandleSend
  \/ HandleToggleEdit
  \/ HandleSaveEdit
  \/ FetchResponds
  \/ FetchFails
  \/ StreamDoneFrame
  \/ HandleNavigateUserEdit

SpecLong == InitLong /\ [][NextLong]_vars

\* two conversations, no tools, four operations, response regeneration; a
\* request fails or is answered by a stream that carries the done frame and
\* no chunk
NextLongWide ==
  \/ MountCreate
  \/ HandleNewChat
  \/ HandleSend
  \/ HandleToggleEdit
  \/ HandleSaveEdit
  \/ HandleRegenerateResponse
  \/ FetchResponds
  \/ FetchFails
  \/ StreamDoneFrame

SpecLongWide == InitLongWide /\ [][NextLongWide]_vars

\* three conversations, the sidebar with its model selector, one send
NextMany ==
  \/ MountCreate
  \/ MountFetchModels
  \/ HandleRetryModels
  \/ ModelsRespond
  \/ ModelsFail
  \/ HandleNewChat
  \/ HandleConversationClick
  \/ HandleDeleteConversation
  \/ HandleModelChange
  \/ HandleSend
  \/ FetchResponds
  \/ FetchFails
  \/ StreamChunk
  \/ StreamDoneFrame

SpecMany == InitMany /\ [][NextMany]_vars

\* one conversation, one send, the response body read piece by piece
NextBytes ==
  \/ MountCreate
  \/ HandleSend
  \/ FetchResponds
  \/ FetchFails
  \/ ReaderRead
  \/ ReaderEnd

SpecBytes == InitBytes /\ [][NextBytes]_vars

\* one conversation, three operations, texts of several lengths; the events
\* are those of SpecLong
SpecTitled == InitTitled /\ [][NextLong]_vars

\* ------------------------------------------------------------- properties
MessagesOf(s) ==
  UNION { { s.conversations[c].messages[i] :
              i \in 1..Len(s.conversations[c].messages) } :
          c \in 1..Len(s.conversations) }

WithId(s, id) == { m \in MessagesOf(s) : m.id = id }

InFlight(t) == thunks[t].pc \in {"fetch", "stream"}

\* the step is an event of operation t itself
OwnStep(t) ==
  \/ thunks'[t].pc # thunks[t].pc
  \/ thunks'[t].recv # thunks[t].recv

\* the step settles operation t
Settles(t, pc) == InFlight(t) /\ thunks'[t].pc = pc

\* C1: in every conversation a message with isStreaming = true is the last
\* message and a Bot message (so there is at most one)
C1_StreamingIsLastBot ==
  \A c \in 1..Len(chat.conversations) :
    LET ms == chat.conversations[c].messages
    IN \A i \in 1..Len(ms) :
         ms[i].isStreaming => i = Len(ms) /\ ms[i].sender = "Bot"

\* C2: at most one stream-starting operation (send, edit-and-regenerate) is
\* in flight at a time
C2_OneStreamInFlight ==
  Cardinality({ t \in 1..Len(thunks) :
                  thunks[t].kind \in StreamKinds /\ InFlight(t) }) <= 1

\* C3: while a stream runs with nothing else interleaved, the text of its
\* placeholder is the concatenation of the chunks received so far, in
\* order, and it is still that when the stream finishes
C3_ChunksInOrder ==
  [][\A t \in 1..Len(thunks) :
       ( /\ thunks[t].kind \in StreamKinds
         /\ thunks[t].pc = "stream"
         /\ thunks[t].botId # 0
         /\ thunks[t].clean )
       => /\ WithId(chat, thunks[t].botId) # {}
          /\ \A m \in WithId(chat, thunks[t].botId) :
               m.text = Concat(thunks[t].recv)
          /\ thunks'[t].pc = "done"
               => /\ WithId(chat', thunks[t].botId) # {}
                  /\ \A m \in WithId(chat', thunks[t].botId) :
                       m.text = Concat(thunks[t].recv) /\ ~m.isStreaming
    ]_vars

\* C3: one send ran alone, delivered two different chunks and finished
C3_Witness ==
  /\ Len(thunks) = 1
  /\ thunks[1].kind = "send"
  /\ thunks[1].pc = "done"
  /\ \E m \in MessagesOf(chat) :
       /\ m.sender = "Bot"
       /\ ~m.isStreaming
       /\ m.text = ChunkText(1) \o ChunkText(2)
       /\ ChunkText(1) # ChunkText(2)

\* C4: when the operation that owns a placeholder settles, the pointer is
\* null and the placeholder has isStreaming = false
C4_SettledStreamIsIdle ==
  [][\A t \in 1..Len(thunks) :
       ( /\ thunks[t].kind \in StreamKinds
         /\ thunks[t].botId # 0
         /\ Settles(t, "done") \/ Settles(t, "failed") )
       => /\ chat'.streamingMessageIndex = Null
          /\ \A m \in WithId(chat', thunks[t].botId) : ~m.isStreaming
    ]_vars

\* C5: a rejected send or edit-and-regenerate clears the pointer, sets the
\* error to a non-null value and leaves every message as it was
C5_RejectionKeepsPartialText ==
  [][\A t \in 1..Len(thunks) :
       (thunks[t].kind \in StreamKinds /\ Settles(t, "failed"))
       => /\ chat'.streamingMessageIndex = Null
          /\ chat'.error # "null"
          /\ chat'.conversations = chat.conversations
    ]_vars

\* C5: a send failed after a chunk had been appended; the partial message is
\* still there
C5_Witness ==
  /\ \E t \in 1..Len(thunks) : thunks[t].kind = "send" /\ thunks[t].pc = "failed"
  /\ chat.error = "network error"
  /\ chat.streamingMessageIndex = Null
  /\ \E m \in MessagesOf(chat) :
       m.sender = "Bot" /\ m.isStreaming /\ m.text = ChunkText(1)

\* C6: finishStreaming applied a second time does not throw and changes
\* nothing; the first application leaves the pointer null and the message
\* it pointed at with isStreaming = false
C6_FinishIsIdempotent ==
  ~StreamTargetMissing(chat) =>
    LET once == finishStreaming(chat)
        twice == finishStreaming(once)
        c == ActiveConv(chat)
        p == chat.streamingMessageIndex
    IN /\ ~StreamTargetMissing(once)
       /\ twice = once
       /\ (c # 0 /\ p # Null) =>
            /\ once.streamingMessageIndex = Null
            /\ ~At(twice.conversations[c].messages, p).isStreaming

\* C6: a placeholder is being streamed into, so the first finishStreaming acts
C6_Witness ==
  /\ ActiveConv(chat) # 0
  /\ chat.streamingMessageIndex # Null
  /\ ~StreamTargetMissing(chat)
  /\ At(ActiveMessages, chat.streamingMessageIndex).isStreaming

\* C7: a chunk dispatched while the pointer is null changes no conversation
\* (the reducer does not touch the message list, so it cannot throw)
C7_AppendWithoutPointerIsNoOp ==
  [][\A t \in 1..Len(thunks) :
       ( /\ thunks[t].kind \in StreamKinds
         /\ Len(thunks'[t].recv) = Len(thunks[t].recv) + 1
         /\ chat.streamingMessageIndex = Null )
       => /\ ~StreamTargetMissing(chat)
          /\ chat' = chat
    ]_vars

\* C7: a stream's chunk arrived after the pointer was cleared and was dropped
C7_Witness ==
  /\ chat.streamingMessageIndex = Null
  /\ \E t \in 1..Len(thunks) :
       /\ thunks[t].kind \in StreamKinds
       /\ thunks[t].pc = "stream"
       /\ thunks[t].botId # 0
       /\ Len(thunks[t].recv) > 0
       /\ \E m \in WithId(chat, thunks[t].botId) : m.text = <<>>

\* C8: once switchConversation has run during A's stream, no event of that
\* stream (placeholder, chunk, finish) creates or changes a message of the
\* conversation that is active instead of A
C8_StreamStaysOutOfOtherConversation ==
  [][\A t \in 1..Len(thunks) :
       ( /\ thunks[t].kind \in StreamKinds
         /\ thunks[t].switched
         /\ OwnStep(t)
         /\ ActiveConv(chat) # 0
         /\ chat.activeConversationId # thunks[t].conv )
       => chat'.conversations[ActiveConv(chat)].messages
            = chat.conversations[ActiveConv(chat)].messages
    ]_vars

\* C9: saving an edit of a message with text T to N makes edits [T, N] when
\* there were none and appends N otherwise; currentEditIndex is the last
\* index, text is N and isEditing is false
C9_EditSeedsAndExtends ==
  [][ ( /\ Len(thunks') = Len(thunks) + 1
        /\ thunks'[Len(thunks')].kind = "regenFrom" )
      => LET id == thunks'[Len(thunks')].arg
             N == thunks'[Len(thunks')].text
             old == Msg(id)
         IN /\ WithId(chat', id) # {}
            /\ \A m \in WithId(chat', id) :
                 /\ m.edits = (IF old.edits = <<>> THEN <<old.text>> ELSE old.edits)
                                \o <<N>>
                 /\ m.currentEditIndex = Len(m.edits) - 1
                 /\ m.text = N
                 /\ ~m.isEditing
    ]_vars

\* C9: a message was edited twice: [T, N] after the first edit, N' appended
\* by the second
C9_Witness ==
  \E m \in MessagesOf(chat) :
    /\ Len(m.edits) = 3
    /\ m.edits[1] # m.edits[2]
    /\ m.currentEditIndex = 2
    /\ m.text = m.edits[3]
    /\ ~m.isEditing

\* C10: every message that has edits shows edits[currentEditIndex]
C10_TextMirrorsCurrentEdit ==
  \A m \in MessagesOf(chat) :
    m.edits # <<>> =>
      /\ m.currentEditIndex \in 0..(Len(m.edits) - 1)
      /\ m.text = At(m.edits, m.currentEditIndex)

\* the live messages after the message `id` of the active conversation
TailAfter(s, id) ==
  LET ms == s.conversations[ActiveConv(s)].messages
  IN Slice(ms, FindIndex(ms, id) + 1, Len(ms))

\* the message `id` of the active conversation
Live(s, id) ==
  LET ms == s.conversations[ActiveConv(s)].messages
  IN At(ms, FindIndex(ms, id))

IsLive(s, id) ==
  /\ ActiveConv(s) # 0
  /\ FindIndex(s.conversations[ActiveConv(s)].messages, id) >= 0

\* the step is a Save of an edit box
SaveStep ==
  /\ Len(thunks') = Len(thunks) + 1
  /\ thunks'[Len(thunks')].kind = "regenFrom"

RECURSIVE Held(_)
Held(ms) ==
  UNION { {ms[i].id} \cup
            UNION { Held(ms[i].branches[b]) : b \in 1..Len(ms[i].branches) } :
          i \in 1..Len(ms) }

\* C12: every message held by a conversation (live, or in a branch reachable
\* from a live message) is still held by it after every step that keeps
\* the conversation
C12_NoMessageLost ==
  [][\A c \in 1..Len(chat.conversations), d \in 1..Len(chat'.conversations) :
       chat.conversations[c].id = chat'.conversations[d].id
         => Held(chat.conversations[c].messages)
              \subseteq Held(chat'.conversations[d].messages)
    ]_vars

IdsOf(s) ==
  IF ActiveConv(s) = 0 THEN {}
  ELSE LET ms == s.conversations[ActiveConv(s)].messages
       IN { ms[i].id : i \in 1..Len(ms) }

\* the slice states that presses of the rendered, enabled prev/next buttons
\* of user messages lead to from the states S
RECURSIVE NavReach(_)
NavReach(S) ==
  LET presses(s) == { p \in IdsOf(s) \X {"prev", "next"} :
                        UserNavButton(s, p[1], p[2]) }
      T == S \cup UNION { { Chat_handleNavigateUserEdit(s, p[1], p[2]) :
                              p \in presses(s) } : s \in S }
  IN IF T = S THEN S ELSE NavReach(T)

\* the message shows edit version k and is followed by branch k
Shows(s, id, k) ==
  /\ IsLive(s, id)
  /\ Live(s, id).text = At(Live(s, id).edits, k)
  /\ TailAfter(s, id) = At(Live(s, id).branches, k)

\* C13: from every state in which nothing is loading, every version k of a
\* user message with n edits and n branches can be brought up by a finite
\* sequence of prev/next presses
C13_EveryVersionReachable ==
  \A id \in ActiveIds :
    ( /\ Msg(id).sender = "User"
      /\ ~chat.isLoading
      /\ ~Msg(id).isEditing
      /\ Len(Msg(id).edits) >= 2
      /\ Len(Msg(id).edits) = Len(Msg(id).branches) )
    => \A k \in 0..(Len(Msg(id).edits) - 1) :
         \E s \in NavReach({chat}) : Shows(s, id, k)

\* the presses of rendered, enabled prev/next buttons in the current state
Presses ==
  { p \in ActiveIds \X {"prev", "next"} : UserNavButton(chat, p[1], p[2]) }

Pressed(p) == Chat_handleNavigateUserEdit(chat, p[1], p[2])

\* C14: after a press of a branch navigation button of the message at
\* index i, the messages before i are unchanged and the messages after i are
\* branches[currentBranchIndex] of the message as stored after the press
C14_MessagesReflectSelectedBranch ==
  \A p \in Presses :
    LET id == p[1]
        after == Pressed(p)
        i == FindIndex(ActiveMessages, id)
    IN /\ IsLive(after, id)
       /\ Slice(after.conversations[ActiveConv(after)].messages, 0, i)
            = Slice(ActiveMessages, 0, i)
       /\ TailAfter(after, id)
            = At(Live(after, id).branches,
                 OrElse(Live(after, id).currentBranchIndex, 0))

\* the branch that handleNavigateUserEdit selects
Selects(s, id, direction) ==
  Clamp(0, Len(Live(s, id).branches) - 1,
        Step(direction, OrElse(Live(s, id).currentBranchIndex, 0)))

\* C15: navigating to branch 0, then to branch 1, then to branch 0 again
\* gives the state of the first selection of branch 0
C15_BranchRoundTrip ==
  \A id \in ActiveIds, d1, d2, d3 \in {"prev", "next"} :
    ( /\ Msg(id).sender = "User"
      /\ Msg(id).edits # <<>>
      /\ Len(Msg(id).branches) > 1
      /\ Selects(chat, id, d1) = 0 )
    => LET first == Chat_handleNavigateUserEdit(chat, id, d1)
       IN /\ TailAfter(first, id) = Msg(id).branches[1]
          /\ Selects(first, id, d2) = 1
               => LET second == Chat_handleNavigateUserEdit(first, id, d2)
                  IN /\ TailAfter(second, id) = Msg(id).branches[2]
                     /\ Selects(second, id, d3) = 0
                          => Chat_handleNavigateUserEdit(second, id, d3) = first

\* C15: a message with two different branches, the second one selected
C15_Witness ==
  \E id \in ActiveIds :
    /\ Msg(id).sender = "User"
    /\ Len(Msg(id).branches) = 2
    /\ Msg(id).branches[1] # Msg(id).branches[2]
    /\ Selects(chat, id, "prev") = 0
    /\ Selects(Chat_handleNavigateUserEdit(chat, id, "prev"), id, "next") = 1
    /\ ~chat.isLoading

\* C16: after a press the message shows some edit version k and is followed
\* by branch k
C16_TailMatchesShownEdit ==
  \A p \in Presses :
    \E k \in 0..(Len(Msg(p[1]).edits) - 1) :
      /\ k < Len(Msg(p[1]).branches)
      /\ Shows(Pressed(p), p[1], k)

\* C19: a press of a branch navigation button changes the messages of the
\* active conversation only, and leaves the branches of the message as
\* they were
C19_NavigationKeepsBranches ==
  \A p \in Presses :
    LET after == Pressed(p)
        c == ActiveConv(chat)
    IN /\ IsLive(after, p[1])
       /\ Live(after, p[1]).branches = Msg(p[1]).branches
       /\ after = WithMessages(chat, c, after.conversations[c].messages)

\* C19: a press is possible and changes the live messages
C19_Witness ==
  \E p \in Presses :
    /\ TailAfter(Pressed(p), p[1]) # TailAfter(chat, p[1])
    /\ Len(Msg(p[1]).branches[1]) > 0

\* the message `id` is in conversation c of s, has n branches, the last one
\* selected, and is followed by that branch
EndsOnLastBranch(s, c, id, n) ==
  LET ms == s.conversations[c].messages
      idx == FindIndex(ms, id)
  IN /\ idx >= 0
     /\ Len(At(ms, idx).branches) = n
     /\ At(ms, idx).currentBranchIndex = n - 1
     /\ Slice(ms, idx + 1, Len(ms)) = At(At(ms, idx).branches, n - 1)

\* C17: when a regeneration from an edited message is fulfilled, the message
\* has one more branch than before, currentBranchIndex is the index of the
\* last branch, and the messages after it are that branch
C17_FulfilledEditSelectsNewBranch ==
  [][\A t \in 1..Len(thunks) :
       ( /\ thunks[t].kind = "regenFrom"
         /\ Settles(t, "done")
         /\ WithId(chat, thunks[t].arg) # {} )
       => LET old == CHOOSE m \in WithId(chat, thunks[t].arg) : TRUE
          IN \E c \in 1..Len(chat'.conversations) :
               EndsOnLastBranch(chat', c, thunks[t].arg, Len(old.branches) + 1)
    ]_vars

\* C18: once a live message has a first branch, that message has the same
\* first branch after every step that keeps it live
C18_FirstBranchIsFixed ==
  [][\A m \in MessagesOf(chat) :
       m.branches # <<>>
         => \A n \in WithId(chat', m.id) :
              /\ n.branches # <<>>
              /\ n.branches[1] = m.branches[1]
    ]_vars

\* the messages of a list and of every branch kept by them
RECURSIVE Kept(_)
Kept(ms) ==
  UNION { {ms[i]} \cup
            UNION { Kept(ms[i].branches[b]) : b \in 1..Len(ms[i].branches) } :
          i \in 1..Len(ms) }

AllMessages(s) ==
  UNION { Kept(s.conversations[c].messages) : c \in 1..Len(s.conversations) }

\* the index is a position of the list when the list is present
ValidIndex(list, index) ==
  list # <<>> => (index # Null /\ 0 <= index /\ index < Len(list))

IndicesValid(s) ==
  \A m \in AllMessages(s) :
    /\ ValidIndex(m.responses, m.currentResponseIndex)
    /\ ValidIndex(m.edits, m.currentEditIndex)
    /\ ValidIndex(m.branches, m.currentBranchIndex)

\* C20: in every state reached, every message (live or kept in a branch)
\* with responses has 0 <= currentResponseIndex < responses.length, and the
\* same holds for edits with currentEditIndex and for branches with
\* currentBranchIndex; the step that gives a live message its responses
\* (edits) puts the text it had before the step at position 0, and position
\* 0 stays as it is while the message has responses (edits)
C20_IndicesValid ==
  [][ /\ IndicesValid(chat')
      /\ \A m \in MessagesOf(chat) : \A n \in WithId(chat', m.id) :
           /\ n.responses # <<>>
                => n.responses[1] = IF m.responses = <<>> THEN m.text
                                    ELSE m.responses[1]
           /\ n.edits # <<>>
                => n.edits[1] = IF m.edits = <<>> THEN m.text
                                ELSE m.edits[1]
    ]_vars

\* C20: a reply with two response versions follows a user message with two
\* edits and two branches
C20_Witness ==
  /\ IndicesValid(chat)
  /\ \E u, b \in ActiveIds :
       /\ Len(Msg(u).edits) = 2
       /\ Msg(u).edits[1] # Msg(u).edits[2]
       /\ Len(Msg(u).branches) = 2
       /\ Msg(b).sender = "Bot"
       /\ Len(Msg(b).responses) = 2
       /\ Msg(b).responses[1] # Msg(b).responses[2]
       /\ Msg(b).currentResponseIndex = 1

\* position `index` of a list of length n stepped in `direction` without
\* leaving the list
Clamped(n, index, direction) == Clamp(0, n - 1, Step(direction, index))

\* the slice state differs from chat at most in the message `id`, which has
\* the given edit index, response index and text
OnlyMoves(after, id, editIndex, responseIndex, text) ==
  LET c == ActiveConv(chat)
      i == FindIndex(ActiveMessages, id)
  IN after = WithMessage(chat, c, i,
               [Msg(id) EXCEPT !.currentEditIndex = editIndex,
                               !.currentResponseIndex = responseIndex,
                               !.text = text])

\* C21: navigateUserEditVersion and navigateResponseVersion, called in any
\* state reached for any message with more than one version, move the index
\* one step and clamp it into the list; the index that is read when none is
\* stored is the last edit, respectively response 0; a call with "prev" at
\* index 0 or "next" at the last index leaves the slice state as it is, the
\* text of the message included
C21_NavigationClamps ==
  \A id \in ActiveIds, direction \in {"prev", "next"} :
    LET m == Msg(id)
        e == OrElse(m.currentEditIndex, Len(m.edits) - 1)
        r == OrElse(m.currentResponseIndex, 0)
        e2 == Clamped(Len(m.edits), e, direction)
        r2 == Clamped(Len(m.responses), r, direction)
    IN /\ Len(m.edits) > 1 =>
            /\ OnlyMoves(navigateUserEditVersion(chat, id, direction), id,
                         e2, m.currentResponseIndex, At(m.edits, e2))
            /\ e2 = e => navigateUserEditVersion(chat, id, direction) = chat
       /\ Len(m.responses) > 1 =>
            /\ OnlyMoves(navigateResponseVersion(chat, id, direction), id,
                         m.currentEditIndex, r2, At(m.responses, r2))
            /\ r2 = r => navigateResponseVersion(chat, id, direction) = chat

\* the text of a message with responses is the response selected
TextMirrorsResponse(s) ==
  \A m \in MessagesOf(s) :
    m.responses # <<>> => m.text = At(m.responses, m.currentResponseIndex)

\* C22: when a regenerateResponse operation is fulfilled, the responses of
\* its bot message are the former ones (the former text alone when there
\* were none) followed by the new completion, currentResponseIndex is the
\* index of the new completion and text is the new completion; and after
\* every step the text of every message with responses is
\* responses[currentResponseIndex]
C22_RegenerationAddsVersion ==
  [][ /\ \A t \in 1..Len(thunks) :
           ( /\ thunks[t].kind = "regenResp"
             /\ Settles(t, "done")
             /\ WithId(chat, thunks[t].arg) # {} )
           => LET old == CHOOSE m \in WithId(chat, thunks[t].arg) : TRUE
                  completion == Concat(thunks[t].recv)
                  seeded == IF old.responses = <<>> THEN <<old.text>>
                            ELSE old.responses
              IN \E n \in WithId(chat', thunks[t].arg) :
                   /\ n.responses = Append(seeded, completion)
                   /\ n.currentResponseIndex = Len(seeded)
                   /\ n.text = completion
      /\ TextMirrorsResponse(chat')
    ]_vars

NoPromptFound == "No user message found to regenerate from"

\* the step is a regenerateResponse that was rejected before its request
RegenerationRefused ==
  /\ Len(thunks') = Len(thunks) + 1
  /\ thunks'[Len(thunks')].kind = "regenResp"
  /\ thunks'[Len(thunks')].pc = "failed"

\* C23: a regenerateResponse on a bot message that no user message precedes
\* starts no request and changes nothing but the error, which is the
\* NoPromptFound message: the conversations with their messages and
\* versions, the active conversation, the streaming pointer and the loading
\* flag are as before
C23_RegenerateWithoutPromptFails ==
  [][RegenerationRefused
       => chat' = [chat EXCEPT !.error = NoPromptFound]
    ]_vars

\* C24: a Save of the edit box of the message at index i leaves the active
\* conversation with exactly i + 1 messages; the messages before i are as
\* they were and message i has the id and the sender it had
C24_EditTruncatesAfterMessage ==
  [][SaveStep
       => LET id == thunks'[Len(thunks')].arg
              i == FindIndex(ActiveMessages, id)
              after == chat'.conversations[ActiveConv(chat')].messages
          IN /\ i >= 0
             /\ chat'.activeConversationId = chat.activeConversationId
             /\ Len(after) = i + 1
             /\ Slice(after, 0, i) = Slice(ActiveMessages, 0, i)
             /\ At(after, i).id = id
             /\ At(after, i).sender = Msg(id).sender
    ]_vars

\* C24: an edit of the second user message has just cut the reply that
\* followed it and kept the first user message
C24_Witness ==
  /\ Len(thunks) > 0
  /\ thunks[Len(thunks)].kind = "regenFrom"
  /\ thunks[Len(thunks)].pc = "fetch"
  /\ Len(ActiveMessages) = 2
  /\ At(ActiveMessages, 1).id = thunks[Len(thunks)].arg
  /\ Len(At(ActiveMessages, 1).branches) = 1
  /\ Len(At(ActiveMessages, 1).branches[1]) > 0

\* C25: navigateUserEditVersion, called in any state reached for any message
\* and direction, changes at most currentEditIndex and text of that message:
\* the other messages of the conversation, their number and order, the
\* branches and currentBranchIndex of the message and the rest of the slice
\* state are as before
C25_EditNavigationKeepsTail ==
  \A id \in ActiveIds, direction \in {"prev", "next"} :
    LET after == navigateUserEditVersion(chat, id, direction)
    IN /\ IsLive(after, id)
       /\ after = WithMessage(chat, ActiveConv(chat),
                              FindIndex(ActiveMessages, id),
                              [Msg(id) EXCEPT
                                 !.currentEditIndex = Live(after, id).currentEditIndex,
                                 !.text = Live(after, id).text])

\* C25: a message with two edits, two branches and a reply after it, for
\* which navigateUserEditVersion changes the text shown
C25_Witness ==
  \E id \in ActiveIds :
    /\ Len(Msg(id).edits) = 2
    /\ Len(Msg(id).branches) = 2
    /\ TailAfter(chat, id) # <<>>
    /\ Live(navigateUserEditVersion(chat, id, "prev"), id).text # Msg(id).text
    /\ Live(navigateUserEditVersion(chat, id, "prev"), id).currentEditIndex = 0

\* the loading flag of an operation of the given kind
LoadingFlag(s, kind) ==
  CASE kind \in ChatKinds -> s.isLoading
    [] kind = "search" -> s.searchLoading
    [] kind = "image" -> s.imageLoading

\* C26: while an operation is in flight the loading flag of its kind is
\* true, and when no operation is in flight the three loading flags are
\* false
C26_LoadingWhileInFlight ==
  /\ \A t \in 1..Len(thunks) : InFlight(t) => LoadingFlag(chat, thunks[t].kind)
  /\ (\A t \in 1..Len(thunks) : ~InFlight(t))
       => ~chat.isLoading /\ ~chat.searchLoading /\ ~chat.imageLoading

\* the step delivers a chunk frame to stream t whose dispatch throws: the
\* streaming pointer is past the end of the active conversation
ChunkThrows(t) ==
  /\ thunks[t].kind \in StreamKinds
  /\ thunks[t].pc = "stream"
  /\ Len(thunks'[t].recv) = Len(thunks[t].recv) + 1
  /\ StreamTargetMissing(chat)

\* C27: a chat operation whose request fails, whose stream breaks, or for
\* which applying a stream event throws, settles as rejected in that step;
\* and after every step that settles a chat operation as rejected (a
\* regenerate refused for want of a prompt included) error is a string and
\* isLoading is false
C27_FailuresBecomeErrors ==
  [][ /\ \A t \in 1..Len(thunks) :
           /\ ChunkThrows(t) => thunks'[t].pc = "failed"
           /\ (thunks[t].kind \in ChatKinds /\ Settles(t, "failed"))
                => chat'.error # "null" /\ ~chat'.isLoading
      /\ RegenerationRefused => chat'.error # "null" /\ ~chat'.isLoading
    ]_vars

ConvIds(s) == { s.conversations[c].id : c \in 1..Len(s.conversations) }

\* C28: a step that creates a conversation puts it at the front of the
\* collection with an id no conversation had, the title "New Chat", no
\* messages and the model selected before the step; the conversations that
\* existed follow it unchanged and in their order, and the new conversation
\* is the active one
C28_CreatePrependsAndActivates ==
  [][Len(chat'.conversations) = Len(chat.conversations) + 1
       => LET new == chat'.conversations[1]
          IN /\ new.id \notin ConvIds(chat)
             /\ new.title = NewChatTitle
             /\ new.messages = <<>>
             /\ new.model = chat.selectedModel
             /\ Tail(chat'.conversations) = chat.conversations
             /\ chat'.activeConversationId = new.id
    ]_vars

\* C28: a new conversation with the model chosen in the selector is in front
\* of an older conversation that has messages and another model
C28_Witness ==
  /\ Len(chat.conversations) = 2
  /\ chat.conversations[1].messages = <<>>
  /\ chat.conversations[1].title = NewChatTitle
  /\ chat.conversations[1].model = "other-model"
  /\ chat.activeConversationId = chat.conversations[1].id
  /\ chat.conversations[2].messages # <<>>
  /\ chat.conversations[2].model = "mistral-large"

\* C29: switchConversation(id), called in any state reached for a
\* conversation of the collection, makes it the active one, sets the
\* streaming pointer to null and selects its model, and changes no
\* conversation; switching from the active conversation to it and back
\* selects the model that was selected before
C29_SwitchRestoresModel ==
  \A c \in 1..Len(chat.conversations) :
    LET conv == chat.conversations[c]
        after == switchConversation(chat, conv.id)
    IN /\ after.activeConversationId = conv.id
       /\ after.streamingMessageIndex = Null
       /\ after.selectedModel = conv.model
       /\ after.conversations = chat.conversations
       /\ (ActiveConv(chat) # 0 /\ conv.id # chat.activeConversationId)
            => switchConversation(after, chat.activeConversationId).selectedModel
                 = chat.selectedModel

\* C30: deleteConversation(id), called in any state reached for a
\* conversation of the collection, removes that conversation and no other;
\* when it was the active one the first remaining conversation is active
\* afterwards, or none when none remains; otherwise the active conversation
\* is the same; and in every state reached the active pointer is null or the
\* id of a conversation of the collection
C30_DeleteKeepsActiveValid ==
  /\ chat.activeConversationId \in ConvIds(chat) \cup {Null}
  /\ \A c \in 1..Len(chat.conversations) :
       LET id == chat.conversations[c].id
           after == deleteConversation(chat, id)
           rest == SubSeq(chat.conversations, 1, c - 1)
                     \o SubSeq(chat.conversations, c + 1, Len(chat.conversations))
       IN /\ after.conversations = rest
          /\ after.activeConversationId =
               IF chat.activeConversationId # id THEN chat.activeConversationId
               ELSE IF Len(rest) > 0 THEN rest[1].id ELSE Null
          /\ after.activeConversationId \in ConvIds(after) \cup {Null}
          /\ after = [chat EXCEPT !.conversations = after.conversations,
                                  !.activeConversationId = after.activeConversationId]

\* C30: the newest of three conversations has been deleted while it was
\* active (the model selected is still the one chosen in it) and the first
\* remaining conversation is active
C30_Witness ==
  /\ Len(chat.conversations) = 2
  /\ nextConvId = 4
  /\ chat.conversations[1].id = 2
  /\ chat.conversations[2].id = 1
  /\ chat.activeConversationId = 2
  /\ chat.selectedModel = "other-model"
  /\ chat.conversations[1].model = "mistral-large"
  /\ chat.conversations[2].model = "mistral-large"

\* ------------------------------------------------------------------ C31
HasUser(ms) == \E i \in 1..Len(ms) : ms[i].sender = "User"

\* C31: the first User message added to a conversation sets the title to
\* its text when that has at most 30 characters and to its first 30
\* characters followed by "..." otherwise; on every other step, and on
\* every step of a conversation that has had its first User message, the
\* title stays what it was.
C31_TitleFromFirstUserMessage ==
  [][\A c \in 1..Len(chat.conversations) :
       LET before == chat.conversations[c]
           c2 == FindConv(chat', before.id)
           after == chat'.conversations[c2]
           i == FindIndex(after.messages, nextId)
           text == At(after.messages, i).text
       IN c2 # 0 =>
            IF ~HasUser(before.messages) /\ i # -1
                 /\ At(after.messages, i).sender = "User"
              THEN after.title =
                     IF Len(text) <= 30 THEN text
                     ELSE SubSeq(text, 1, 30) \o <<".", ".", ".">>
              ELSE after.title = before.title ]_vars

\* ------------------------------------------------------------------ C33
Contains(list, x) == \E k \in 1..Len(list) : list[k] = x

\* a GET /models request settles
ModelsSettle ==
  /\ Len(modelThunks') = Len(modelThunks)
  /\ modelThunks' # modelThunks

\* C33: when the model list arrives and does not hold the selected model,
\* the selection becomes the default name; when it holds it, the selection
\* stays; when the request fails, the selection and the list stay and
\* modelsError is set.
C33_ModelListFallback ==
  [][ModelsSettle =>
        IF chat'.modelsError = "null"
          THEN chat'.selectedModel =
                 IF Contains(chat'.availableModels, chat.selectedModel)
                   THEN chat.selectedModel
                   ELSE DefaultModel
          ELSE /\ chat'.selectedModel = chat.selectedModel
               /\ chat'.availableModels = chat.availableModels
               /\ chat'.conversations = chat.conversations ]_vars

\* ------------------------------------------------------------------ C34
\* C34: a search or image call that fails leaves the earlier results: after
\* pending and rejected, searchResults, generatedImageUrl and imageHistory
\* are what they were before the call.
C34_FailedToolKeepsResults ==
  /\ webSearch_rejected(webSearch_pending(chat)).searchResults
       = chat.searchResults
  /\ LET after == generateImage_rejected(generateImage_pending(chat))
     IN /\ after.generatedImageUrl = chat.generatedImageUrl
        /\ after.imageHistory = chat.imageHistory

\* ------------------------------------------------------------------ C38
\* an operation starts and sends its POST /chat
Requests(kind) ==
  /\ Len(thunks') = Len(thunks) + 1
  /\ thunks'[Len(thunks')].kind = kind
  /\ thunks'[Len(thunks')].pc = "fetch"

\* C38: the history of a request never holds the prompt: for a send it is
\* the messages that were there before the new user message; for an edit of
\* the message at index i it is messages[0..i-1]; for a regeneration of the
\* bot message at index j it is messages[0..j-2], with the prompt the text
\* of message j-1.
C38_HistoryExcludesPrompt ==
  [][LET new == thunks'[Len(thunks')]
         ms == ActiveMessages
         at == FindIndex(ms, new.arg)
     IN /\ Requests("send")
             => new.request = [ message |-> new.text,
                                history |-> formatHistoryForAPI(ms) ]
        /\ Requests("regenFrom")
             => new.request = [ message |-> new.text,
                                history |-> formatHistoryForAPI(Slice(ms, 0, at)) ]
        /\ Requests("regenResp")
             => new.request = [ message |-> At(ms, at - 1).text,
                                history |-> formatHistoryForAPI(Slice(ms, 0, at - 1)) ]
    ]_vars

\* ------------------------------------------------------------------ C35
\* C35: whenever the streaming pointer is set, the active conversation
\* exists, the pointer is an index of its messages, and the message there is
\* a Bot message with isStreaming = true that is the placeholder of a stream
\* in flight.
C35_PointerNamesLiveStream ==
  chat.streamingMessageIndex # Null =>
    /\ ActiveConv(chat) # 0
    /\ chat.streamingMessageIndex < Len(ActiveMessages)
    /\ LET m == At(ActiveMessages, chat.streamingMessageIndex)
       IN /\ m.sender = "Bot"
          /\ m.isStreaming
          /\ \E t \in 1..Len(thunks) :
               /\ thunks[t].kind \in StreamKinds
               /\ thunks[t].pc = "stream"
               /\ thunks[t].botId = m.id

\* ------------------------------------------------------------------ C36
\* C36: whenever no operation is in flight, every live user message that has
\* branches has as many edit versions as branches (branch k being the
\* continuation of edit k), also after an edit whose request failed.
C36_EditsMatchBranches ==
  (\A t \in 1..Len(thunks) : ~InFlight(t)) =>
    \A m \in MessagesOf(chat) :
      m.branches # <<>> => Len(m.edits) = Len(m.branches)

\* ------------------------------------------------------------------ C37
\* C37: the step on which a regenerateResponse completes adds one response
\* version, the completion, to the bot message it was started for in the
\* conversation it was started in, and changes no other message of any
\* conversation.
C37_RegenerationReachesItsMessage ==
  [][\A t \in 1..Len(thunks) :
       (thunks[t].kind = "regenResp" /\ Settles(t, "done")) =>
         LET c == FindConv(chat, thunks[t].conv)
             ms == chat.conversations[c].messages
             i == FindIndex(ms, thunks[t].arg)
             old == At(ms, i)
             seeded == IF old.responses = <<>> THEN <<old.text>>
                       ELSE old.responses
         IN /\ c # 0
            /\ i # -1
            /\ Len(chat'.conversations) = Len(chat.conversations)
            /\ \A d \in 1..Len(chat.conversations) :
                 LET ns == chat'.conversations[d].messages
                 IN IF d # c THEN ns = chat.conversations[d].messages
                    ELSE /\ Len(ns) = Len(ms)
                         /\ \A j \in 1..Len(ms) : j # i + 1 => ns[j] = ms[j]
                         /\ At(ns, i).id = old.id
                         /\ At(ns, i).responses
                              = Append(seeded, Concat(thunks[t].recv))
    ]_vars

\* ------------------------------------------------------------------ C32
\* the chunk texts of the frames up to the first done frame; frames that
\* do not parse, that hold neither chunk nor done, and lines that are no
\* data lines give nothing
RECURSIVE ChunksSent(_)
ChunksSent(frames) ==
  IF frames = <<>> \/ Head(frames) = "done" THEN <<>>
  ELSE (IF Head(frames) \in { "x", "y" } THEN <<Head(frames)>> ELSE <<>>)
         \o ChunksSent(Tail(frames))

\* the frames that have both their line ends
Whole(rd) ==
  IF rd.cut THEN SubSeq(rd.frames, 1, Len(rd.frames) - 1) ELSE rd.frames

\* the placeholder of the only operation of a run
Placeholder == At(ActiveMessages, Len(ActiveMessages) - 1)

\* C32: a frame whose JSON does not parse is skipped: an operation whose
\* request was answered is never rejected, and once the done frame or the
\* end of the body has been read it is fulfilled and the message holds
\* the chunks of the well-formed frames before the done frame, in their
\* order.
C32_MalformedFrameIsSkipped ==
  \A t \in 1..Len(thunks) :
    budget.bytes =>
      /\ thunks[t].pc = "failed" => Len(ActiveMessages) = 1
      /\ thunks[t].pc = "done" =>
           /\ Placeholder.text = ChunksSent(Whole(thunks[t].reader))
           /\ ~Placeholder.isStreaming
           /\ ~chat.isLoading
           /\ chat.error = "null"

C32_Witness ==
  /\ budget.bytes
  /\ Len(thunks) = 1
  /\ thunks[1].pc = "done"
  /\ thunks[1].reader.frames = <<"x", "bad", "y">>
  /\ ~thunks[1].reader.cut
  /\ Placeholder.text = <<"x", "y">>

\* ------------------------------------------------------------------ C39
\* what one read of the whole text gives, from the state the stream
\* started in
OneRead(s, text) ==
  LET read == ReadLines(<<>>, text)
  IN [ r |-> ForLines([ chat |-> s, returned |-> FALSE, finished |-> 0 ],
                      read.lines),
       buffer |-> read.buffer ]

\* C39: however the body is cut into reads, the message and the buffer are
\* what one read of the same bytes gives: while the stream is read, for the
\* bytes read so far; once it has settled, for the whole body; and
\* finishStreaming has been dispatched exactly once when it has settled and
\* never before.
C39_ReadsDoNotMatter ==
  \A t \in 1..Len(thunks) :
    LET th == thunks[t]
        blank == [chat EXCEPT
                    !.conversations[1].messages[Len(ActiveMessages)].text = <<>>,
                    !.conversations[1].messages[Len(ActiveMessages)].isStreaming = TRUE,
                    !.streamingMessageIndex = Len(ActiveMessages) - 1]
    IN /\ (budget.bytes /\ th.pc = "stream") =>
            LET one == OneRead(blank, SubSeq(WireOfThunk(th), 1, th.reader.pos))
            IN /\ ~one.r.returned
               /\ one.r.chat = chat
               /\ one.buffer = th.reader.buffer
               /\ th.reader.finished = 0
       /\ (budget.bytes /\ th.pc = "done") =>
            LET one == OneRead(blank, WireOfThunk(th))
            IN /\ Placeholder.text = At(MessagesIn(one.r.chat),
                                        Len(ActiveMessages) - 1).text
               /\ ~Placeholder.isStreaming
               /\ chat.streamingMessageIndex = Null
               /\ th.reader.finished = 1

C39_Witness ==
  /\ budget.bytes
  /\ Len(thunks) = 1
  /\ thunks[1].pc = "stream"
  /\ thunks[1].reader.frames = <<"x", "y", "done">>
  /\ thunks[1].reader.cut
  /\ thunks[1].reader.buffer = <<"data: ", "{", "chunk">>
  /\ Placeholder.text = <<"x">>

====
